---- MODULE Spec2Model ----
(***************************************************************************)
(* Storage meter of the contracts pallet                                   *)
(* (src/frame/contracts/src/storage/meter.rs).                             *)
(*                                                                         *)
(* A RawMeter is a record (origin, limit, total_usage, own_usage).  The    *)
(* pure operators below are the methods of the file, computed as the code  *)
(* computes them (saturating Balance arithmetic included).  The actions    *)
(* are the calls a dispatcher makes on the meters of one call stack:       *)
(* `stack` holds the live meters, Root first, the executing frame last.    *)
(* The ledger (trait Ext) is external: its calls are counted and the calls *)
(* issued by the last operation are kept in `ev`.                          *)
(***************************************************************************)
EXTENDS Integers, Sequences, FiniteSets, TLC

\* ------------------------------------------------------------------ bounds
\* Largest value of the Balance type (stands for BalanceOf<T>::MAX).
BalanceMax == 2
\* Deepest nesting of Nested meters below the Root.
MaxDepth == 2
\* Nested meters opened during one top-level call.
MaxOpens == 2

\* Calls of absorb on a meter that was absorbed before.
MaxReuse == 1

Balance == 0..BalanceMax
Accounts == {"alice", "bob"}
Contracts == {"X"}
None == "None"

\* ------------------------------------------------------- Balance arithmetic
\* Mutant of balance_saturating_add: the sum wraps around.
balance_wrapping_add(a, b) == (a + b) % (BalanceMax + 1)

\* BalanceOf<T>::saturating_add / saturating_sub as used by meter.rs.
balance_saturating_add(a, b) == IF a + b > BalanceMax THEN BalanceMax ELSE a + b
balance_saturating_sub(a, b) == IF a < b THEN 0 ELSE a - b

\* ------------------------------------------------------------------- Usage
Usage == [charge : Balance, refund : Balance]
\* #[derive(DefaultNoBound)] for Usage
DefaultUsage == [charge |-> 0, refund |-> 0]

\* Mutant of cost: equal totals are a refund.
cost_refund_on_tie(u) ==
    IF u.charge > u.refund
    THEN [kind |-> "Charge", amount |-> u.charge - u.refund]
    ELSE [kind |-> "Refund", amount |-> u.refund - u.charge]

\* Usage::cost
cost(u) ==
    IF u.charge >= u.refund
    THEN [kind |-> "Charge", amount |-> balance_saturating_sub(u.charge, u.refund)]
    ELSE [kind |-> "Refund", amount |-> balance_saturating_sub(u.refund, u.charge)]

\* impl Saturating for Usage
saturating_add(u, rhs) ==
    [charge |-> balance_saturating_add(u.charge, rhs.charge),
     refund |-> balance_saturating_add(u.refund, rhs.refund)]

saturating_sub(u, rhs) ==
    [charge |-> balance_saturating_sub(u.charge, rhs.charge),
     refund |-> balance_saturating_sub(u.refund, rhs.refund)]

\* ---------------------------------------------------------------- RawMeter
\* Mutant of available: the charges already taken are not deducted.
available_ignoring_charge(m) ==
    balance_saturating_add(m.limit, m.total_usage.refund)

\* RawMeter::available
available(m) ==
    balance_saturating_sub(
        balance_saturating_add(m.limit, m.total_usage.refund),
        m.total_usage.charge)

\* Mutant of nested: the child is handed the parent's whole limit.
nested_full_limit(m) ==
    [origin |-> None,
     limit |-> m.limit,
     total_usage |-> DefaultUsage,
     own_usage |-> DefaultUsage]

\* Mutant of nested: the child keeps the parent's origin.
nested_keeping_origin(m) ==
    [origin |-> m.origin,
     limit |-> balance_saturating_sub(
                   balance_saturating_add(m.limit, m.total_usage.refund),
                   m.total_usage.charge),
     total_usage |-> DefaultUsage,
     own_usage |-> DefaultUsage]

\* RawMeter::nested: the meter returned for a sub-call of `m`.
nested(m) ==
    [origin |-> None,
     limit |-> available(m),
     total_usage |-> DefaultUsage,
     own_usage |-> DefaultUsage]

\* Mutant of absorb: the settlement is the cost of total_usage.
absorb_settling_total(self, absorbed, origin, contract) ==
    [calls |-> <<[fn |-> "charge", origin |-> origin, contract |-> contract,
                  amount |-> cost(absorbed.total_usage)]>>,
     self |-> [self EXCEPT !.total_usage =
                  saturating_add(self.total_usage, absorbed.total_usage)],
     absorbed |-> [absorbed EXCEPT !.limit = 0,
                                   !.total_usage = DefaultUsage,
                                   !.own_usage = DefaultUsage]]

\* Mutant of absorb: the absorbed own_usage is also added to self.own_usage.
absorb_into_own_usage(self, absorbed, origin, contract) ==
    [calls |-> <<[fn |-> "charge", origin |-> origin, contract |-> contract,
                  amount |-> cost(absorbed.own_usage)]>>,
     self |-> [self EXCEPT !.total_usage =
                  saturating_add(self.total_usage, absorbed.total_usage),
                           !.own_usage =
                  saturating_add(self.own_usage, absorbed.own_usage)],
     absorbed |-> [absorbed EXCEPT !.limit = 0,
                                   !.total_usage = DefaultUsage,
                                   !.own_usage = DefaultUsage]]

\* Mutant of absorb: the limit reset hits self instead of absorbed.
absorb_resetting_self(self, absorbed, origin, contract) ==
    [calls |-> <<[fn |-> "charge", origin |-> origin, contract |-> contract,
                  amount |-> cost(absorbed.own_usage)]>>,
     self |-> [self EXCEPT !.total_usage =
                  saturating_add(self.total_usage, absorbed.total_usage),
                           !.limit = 0],
     absorbed |-> [absorbed EXCEPT !.total_usage = DefaultUsage,
                                   !.own_usage = DefaultUsage]]

\* Mutant of absorb: only the absorbed own_usage is added to self.
absorb_adding_own_usage(self, absorbed, origin, contract) ==
    [calls |-> <<[fn |-> "charge", origin |-> origin, contract |-> contract,
                  amount |-> cost(absorbed.own_usage)]>>,
     self |-> [self EXCEPT !.total_usage =
                  saturating_add(self.total_usage, absorbed.own_usage)],
     absorbed |-> [absorbed EXCEPT !.limit = 0,
                                   !.total_usage = DefaultUsage,
                                   !.own_usage = DefaultUsage]]

\* RawMeter::absorb: the ledger call it issues, `self` and `absorbed` after it.
absorb(self, absorbed, origin, contract) ==
    [calls |-> <<[fn |-> "charge", origin |-> origin, contract |-> contract,
                  amount |-> cost(absorbed.own_usage)]>>,
     self |-> [self EXCEPT !.total_usage =
                  saturating_add(self.total_usage, absorbed.total_usage)],
     absorbed |-> [absorbed EXCEPT !.limit = 0,
                                   !.total_usage = DefaultUsage,
                                   !.own_usage = DefaultUsage]]

\* Mutant of new: the result of reserve_limit is dropped.
new_unchecked(origin, limit, reserved) ==
    [result |-> "Ok",
     meter |-> <<[origin |-> origin,
                  limit |-> limit,
                  total_usage |-> DefaultUsage,
                  own_usage |-> DefaultUsage]>>]

\* RawMeter<Root>::new: `reserved` is the outcome of E::reserve_limit.
new(origin, limit, reserved) ==
    IF ~reserved
    THEN [result |-> "ReservationFailed", meter |-> <<>>]
    ELSE [result |-> "Ok",
          meter |-> <<[origin |-> origin,
                       limit |-> limit,
                       total_usage |-> DefaultUsage,
                       own_usage |-> DefaultUsage]>>]

\* Mutant of charge: a failing charge leaves the meter as it was.
charge_undone_on_error(m, usage) ==
    LET total == saturating_add(m.total_usage, usage)
        own == saturating_add(m.own_usage, usage)
        c == cost(total)
    IN  IF c.kind = "Charge" /\ c.amount > m.limit
        THEN [meter |-> m, result |-> "StorageExhausted"]
        ELSE [meter |-> [m EXCEPT !.total_usage = total, !.own_usage = own],
              result |-> "Ok"]

\* Mutant of charge: the limit is not checked.
charge_unchecked(m, usage) ==
    [meter |-> [m EXCEPT !.total_usage = saturating_add(m.total_usage, usage),
                         !.own_usage = saturating_add(m.own_usage, usage)],
     result |-> "Ok"]

\* RawMeter<Nested>::charge: the meter after the call and what it returns.
charge(m, usage) ==
    LET total == saturating_add(m.total_usage, usage)
        own == saturating_add(m.own_usage, usage)
        after == [m EXCEPT !.total_usage = total, !.own_usage = own]
        c == cost(total)
    IN  [meter |-> after,
         result |-> IF c.kind = "Charge" /\ c.amount > m.limit
                    THEN "StorageExhausted"
                    ELSE "Ok"]

\* Mutant of drop: the runtime check on `origin` is missing.
drop_without_origin_check(m) ==
    [asserted |-> m.own_usage.charge = 0 /\ m.own_usage.refund = 0,
     calls |-> <<[fn |-> "unreserve_limit", origin |-> m.origin,
                  limit |-> m.limit, usage |-> m.total_usage]>>]

\* Drop::drop: the runtime check on `origin`, the debug assertions and the
\* ledger call.
drop(m) ==
    IF m.origin # None
    THEN [asserted |-> m.own_usage.charge = 0 /\ m.own_usage.refund = 0,
          calls |-> <<[fn |-> "unreserve_limit", origin |-> m.origin,
                       limit |-> m.limit, usage |-> m.total_usage]>>]
    ELSE [asserted |-> TRUE, calls |-> <<>>]

\* ------------------------------------------------------------------- state
VARIABLES
    stack,      \* live meters: stack[1] the Root, the last one the executing frame
    exhausted,  \* per live meter: a charge on it returned StorageExhausted
    atOpen,     \* per live meter: the ancestors' meters when it was opened
    sibling,    \* per live meter: its last dropped child's limit, whether that
                \* child had recorded usage, and its own state when that child
                \* was opened; forgotten when the meter changes
    spent,      \* the meter last passed to absorb, as absorb left it
    ledger,     \* counts of the Ext calls made so far
    run,        \* dispatcher counts: calls, roots created/destroyed, frames
    panicked,   \* a debug assertion of drop failed
    ev,         \* the last operation: name, argument, result, Ext calls
    acc,        \* a Usage value on its own, for the arithmetic of Usage
    audit       \* the own_usage of the meters Ext::charge was called for,
                \* summed without a cap

vars == <<stack, exhausted, atOpen, sibling, spent, ledger, run, panicked, ev,
          acc, audit>>

Top(s) == s[Len(s)]
Front(s) == SubSeq(s, 1, Len(s) - 1)
SetTop(s, x) == [s EXCEPT ![Len(s)] = x]

CountCalls(calls, f) == Cardinality({i \in 1..Len(calls) : calls[i].fn = f})

Record(calls) ==
    [ledger EXCEPT !.unreserve_limit = @ + CountCalls(calls, "unreserve_limit"),
                   !.charge = @ + CountCalls(calls, "charge")]

\* audit after an absorb that issued `calls` for a meter with own_usage `own`.
Settled(calls, own) ==
    [settled |-> [charge |-> audit.settled.charge
                                + CountCalls(calls, "charge") * own.charge,
                  refund |-> audit.settled.refund
                                + CountCalls(calls, "charge") * own.refund]]

Init ==
    /\ stack = <<>>
    /\ exhausted = <<>>
    /\ atOpen = <<>>
    /\ sibling = <<>>
    /\ spent = <<>>
    /\ ledger = [reserve_limit |-> 0, unreserve_limit |-> 0, charge |-> 0]
    /\ run = [calls |-> 0, created |-> 0, destroyed |-> 0,
              opened |-> 0, persisted |-> 0, reused |-> 0]
    /\ panicked = FALSE
    /\ ev = [op |-> "init", res |-> "Ok", arg |-> <<>>, calls |-> <<>>]
    /\ acc = DefaultUsage
    /\ audit = [settled |-> [charge |-> 0, refund |-> 0]]

\* ----------------------------------------------------------------- actions
\* Meter::new(origin, limit) at the start of the top-level call (one call
\* tree per run).
New ==
    /\ stack = <<>>
    /\ run.calls = 0
    /\ \E origin \in Accounts, limit \in Balance, reserved \in BOOLEAN :
         LET r == new(origin, limit, reserved) IN
         /\ stack' = r.meter
         /\ exhausted' = [i \in 1..Len(r.meter) |-> FALSE]
         /\ atOpen' = [i \in 1..Len(r.meter) |-> <<>>]
         /\ sibling' = [i \in 1..Len(r.meter) |-> <<>>]
         /\ ledger' = [ledger EXCEPT !.reserve_limit = @ + 1]
         /\ run' = [run EXCEPT !.calls = @ + 1,
                               !.created = @ + Len(r.meter),
                               !.opened = 0]
         /\ ev' = [op |-> "new", res |-> r.result,
                   arg |-> [origin |-> origin, limit |-> limit],
                   calls |-> <<[fn |-> "reserve_limit", origin |-> origin,
                                limit |-> limit, ok |-> reserved]>>]
    /\ spent' = <<>>
    /\ UNCHANGED <<panicked, acc, audit>>

\* meter.nested(contract) on the executing frame, on entering a sub-call.
Nested ==
    /\ stack # <<>>
    /\ ~Top(exhausted)
    /\ Len(stack) <= MaxDepth
    /\ run.opened < MaxOpens
    /\ \E contract \in Contracts :
         /\ stack' = Append(stack, nested(Top(stack)))
         /\ ev' = [op |-> "nested", res |-> "Ok", arg |-> contract, calls |-> <<>>]
    /\ exhausted' = Append(exhausted, FALSE)
    /\ atOpen' = Append(atOpen, stack)
    /\ sibling' = Append(sibling, <<>>)
    /\ run' = [run EXCEPT !.opened = @ + 1]
    /\ UNCHANGED <<spent, ledger, panicked, acc, audit>>

\* Mutant of Charge: the delta is also added to every ancestor's total_usage.
ChargePropagating ==
    /\ Len(stack) >= 2
    /\ ~Top(exhausted)
    /\ \E usage \in Usage :
         LET r == charge(Top(stack), usage) IN
         /\ stack' = [i \in 1..Len(stack) |->
                        IF i = Len(stack)
                        THEN r.meter
                        ELSE [stack[i] EXCEPT !.total_usage =
                                 saturating_add(@, usage)]]
         /\ exhausted' = SetTop(exhausted, r.result # "Ok")
         /\ ev' = [op |-> "charge", res |-> r.result, arg |-> usage, calls |-> <<>>]
    /\ sibling' = SetTop(sibling, <<>>)
    /\ UNCHANGED <<atOpen, spent, ledger, run, panicked, acc, audit>>

\* meter.charge(usage) on the executing Nested frame.
Charge ==
    /\ Len(stack) >= 2
    /\ ~Top(exhausted)
    /\ \E usage \in Usage :
         LET r == charge(Top(stack), usage) IN
         /\ stack' = SetTop(stack, r.meter)
         /\ exhausted' = SetTop(exhausted, r.result # "Ok")
         /\ ev' = [op |-> "charge", res |-> r.result, arg |-> usage, calls |-> <<>>]
    /\ sibling' = SetTop(sibling, <<>>)
    /\ UNCHANGED <<atOpen, spent, ledger, run, panicked, acc, audit>>

\* parent.absorb(&mut nested, origin, contract) on clean return of the
\* executing frame; `keep` says whether the caller holds on to the absorbed
\* meter afterwards or lets it go out of scope at once.
AbsorbTop(keep) ==
    /\ Len(stack) >= 2
    /\ ~Top(exhausted)
    /\ \E contract \in Contracts :
         LET parent == stack[Len(stack) - 1]
             r == absorb(parent, Top(stack), stack[1].origin, contract)
             d == drop(r.absorbed)
             calls == IF keep THEN r.calls ELSE r.calls \o d.calls
         IN  /\ stack' = SetTop(Front(stack), r.self)
             /\ spent' = IF keep THEN <<r.absorbed>> ELSE <<>>
             /\ ledger' = Record(calls)
             /\ ev' = [op |-> "absorb", res |-> "Ok",
                       arg |-> contract, calls |-> calls]
             /\ audit' = Settled(calls, Top(stack).own_usage)
    /\ exhausted' = Front(exhausted)
    /\ atOpen' = Front(atOpen)
    /\ sibling' = SetTop(Front(sibling), <<>>)
    /\ run' = [run EXCEPT !.persisted = @ + 1]
    /\ UNCHANGED <<panicked, acc>>

Absorb == AbsorbTop(FALSE)

\* Mutant of Discard: the reverted frame's usage is folded into its parent.
DiscardAbsorbing ==
    /\ Len(stack) >= 2
    /\ LET d == drop(Top(stack)) IN
         /\ ledger' = Record(d.calls)
         /\ ev' = [op |-> "discard", res |-> "Ok",
                   arg |-> Top(stack).total_usage # DefaultUsage,
                   calls |-> d.calls]
    /\ stack' = SetTop(Front(stack),
                       [stack[Len(stack) - 1] EXCEPT !.total_usage =
                           saturating_add(@, Top(stack).total_usage)])
    /\ exhausted' = Front(exhausted)
    /\ sibling' = SetTop(Front(sibling),
                         <<[limit |-> Top(stack).limit,
                            used |-> Top(stack).total_usage # DefaultUsage,
                            parent |-> Top(Top(atOpen))]>>)
    /\ atOpen' = Front(atOpen)
    /\ UNCHANGED <<spent, run, panicked, acc, audit>>

\* The executing Nested frame is reverted: its meter is dropped unabsorbed.
Discard ==
    /\ Len(stack) >= 2
    /\ LET d == drop(Top(stack)) IN
         /\ ledger' = Record(d.calls)
         /\ ev' = [op |-> "discard", res |-> "Ok",
                   arg |-> Top(stack).total_usage # DefaultUsage,
                   calls |-> d.calls]
    /\ stack' = Front(stack)
    /\ exhausted' = Front(exhausted)
    /\ sibling' = SetTop(Front(sibling),
                         <<[limit |-> Top(stack).limit,
                            used |-> Top(stack).total_usage # DefaultUsage,
                            parent |-> Top(Top(atOpen))]>>)
    /\ atOpen' = Front(atOpen)
    /\ UNCHANGED <<spent, run, panicked, acc, audit>>

\* The top-level call ends: the Root meter is dropped.  In a build with
\* debug assertions a failed assertion panics before the ledger call.
DropRoot ==
    /\ Len(stack) = 1
    /\ \E debug_assertions \in BOOLEAN :
         LET d == drop(stack[1])
             panic == debug_assertions /\ ~d.asserted
             calls == IF panic THEN <<>> ELSE d.calls
         IN  /\ panicked' = panic
             /\ ledger' = Record(calls)
             /\ ev' = [op |-> "drop_root", res |-> IF panic THEN "panic" ELSE "Ok",
                       arg |-> <<>>, calls |-> calls]
    /\ stack' = <<>>
    /\ exhausted' = <<>>
    /\ atOpen' = <<>>
    /\ sibling' = <<>>
    /\ spent' = <<>>
    /\ run' = [run EXCEPT !.destroyed = @ + 1]
    /\ UNCHANGED <<acc, audit>>

Next ==
    \/ New
    \/ Nested
    \/ Charge
    \/ Absorb
    \/ Discard
    \/ DropRoot

\* The dispatcher of the call stack: every meter is absorbed or dropped once,
\* by the frame that opened it, and an exhausted frame is reverted.
Spec == Init /\ [][Next]_vars

\* ------------------------------------------ use of a meter after its absorb
\* absorb takes `absorbed: &mut RawMeter`, so the caller still owns the meter
\* when absorb returns and every method stays callable on it.
AbsorbKept == AbsorbTop(TRUE)

\* spent.charge(usage)
ChargeSpent ==
    /\ spent # <<>>
    /\ \E usage \in Usage :
         LET r == charge(spent[1], usage) IN
         /\ spent' = <<r.meter>>
         /\ ev' = [op |-> "charge_spent", res |-> r.result,
                   arg |-> usage, calls |-> <<>>]
    /\ UNCHANGED <<stack, exhausted, atOpen, sibling, ledger, run, panicked,
                   acc, audit>>

\* parent.absorb(&mut spent, origin, contract) a second time.
AbsorbSpent ==
    /\ spent # <<>>
    /\ stack # <<>>
    /\ run.reused < MaxReuse
    /\ \E contract \in Contracts :
         LET r == absorb(Top(stack), spent[1], stack[1].origin, contract) IN
         /\ stack' = SetTop(stack, r.self)
         /\ spent' = <<r.absorbed>>
         /\ ledger' = Record(r.calls)
         /\ ev' = [op |-> "absorb_spent", res |-> "Ok",
                   arg |-> contract, calls |-> r.calls]
         /\ audit' = Settled(r.calls, spent[1].own_usage)
    /\ sibling' = SetTop(sibling, <<>>)
    /\ run' = [run EXCEPT !.reused = @ + 1]
    /\ UNCHANGED <<exhausted, atOpen, panicked, acc>>

\* The absorbed meter goes out of scope.
DropSpent ==
    /\ spent # <<>>
    /\ LET d == drop(spent[1]) IN
         /\ ledger' = Record(d.calls)
         /\ ev' = [op |-> "drop_spent", res |-> "Ok",
                   arg |-> <<>>, calls |-> d.calls]
    /\ spent' = <<>>
    /\ UNCHANGED <<stack, exhausted, atOpen, sibling, run, panicked, acc,
                   audit>>

NextReuse ==
    \/ Next
    \/ AbsorbKept
    \/ ChargeSpent
    \/ AbsorbSpent
    \/ DropSpent

\* Every call the signatures of meter.rs allow on an absorbed meter.
SpecReuse == Init /\ [][NextReuse]_vars

\* ===================================================================== claims
Min(a, b) == IF a < b THEN a ELSE b
Max(a, b) == IF a > b THEN a ELSE b

\* Charges and refunds recorded by the frames j..Len(stack), as plain sums.
InFlightCharge(j) ==
    LET f[i \in (j - 1)..Len(stack)] ==
            IF i < j THEN 0 ELSE f[i - 1] + stack[i].total_usage.charge
    IN  f[Len(stack)]

InFlightRefund(j) ==
    LET f[i \in (j - 1)..Len(stack)] ==
            IF i < j THEN 0 ELSE f[i - 1] + stack[i].total_usage.refund
    IN  f[Len(stack)]

\* Frame j is oversold: the net charge of its usage and of the usage of its
\* open descendants exceeds its limit.
Oversold(j) == InFlightCharge(j) - InFlightRefund(j) > stack[j].limit

\* net_cost as the specification words it.
NetCost(u) ==
    IF u.charge >= u.refund
    THEN [kind |-> "Charge", amount |-> u.charge - u.refund]
    ELSE [kind |-> "Refund", amount |-> u.refund - u.charge]

\* Component-wise sum of two usages, capped at the largest Balance.
CappedSum(u, v) ==
    [charge |-> Min(u.charge + v.charge, BalanceMax),
     refund |-> Min(u.refund + v.refund, BalanceMax)]

Releases(calls) == CountCalls(calls, "unreserve_limit")
Settles(calls) == CountCalls(calls, "charge")

\* C1: while the executing frame is not exhausted (so after every charge that
\* returned Ok, and in every state between charges), no live frame is
\* oversold: for each frame of the stack, Root included, the net charge of
\* its usage together with that of its open descendants is at most its limit.
C1_NoAncestorOversold ==
    (stack # <<>> /\ ~Top(exhausted)) => \A j \in 1..Len(stack) : ~Oversold(j)

\* C1 witness: a charge on a frame two levels below the Root returned Ok,
\* both Nested frames hold charges, and together they use the Root's limit up.
C1_Witness ==
    /\ ev.op = "charge" /\ ev.res = "Ok"
    /\ Len(stack) = 3
    /\ stack[2].total_usage.charge > 0
    /\ stack[3].total_usage.charge > 0
    /\ InFlightCharge(1) - InFlightRefund(1) = stack[1].limit

\* C2: a charge adds its delta to the total_usage of every ancestor in the
\* same step, so every live frame's total_usage contains the own_usage of
\* each of its open descendants.
C2_AncestorsHoldDescendantUsage ==
    \A j \in 1..Len(stack) : \A i \in (j + 1)..Len(stack) :
        /\ stack[j].total_usage.charge >= stack[i].own_usage.charge
        /\ stack[j].total_usage.refund >= stack[i].own_usage.refund

\* C3: dropping a Nested frame unabsorbed leaves every ancestor's total_usage
\* equal to what it was when the frame was opened.
C3_RollbackExact ==
    [][ev'.op = "discard" =>
          /\ Len(stack') = Len(Top(atOpen))
          /\ \A j \in 1..Len(stack') :
                stack'[j].total_usage = Top(atOpen)[j].total_usage]_vars

\* C3 witness: a frame that recorded charges was dropped below an ancestor
\* that holds usage of its own.
C3_Witness ==
    /\ ev.op = "discard"
    /\ ev.arg
    /\ Len(stack) = 2
    /\ stack[2].total_usage.charge > 0

\* C4: unreserve_limit is called once per Root, by the Root's drop and by no
\* other operation, however many Nested frames were opened below it.
C4_SingleRelease ==
    /\ ledger.unreserve_limit = run.destroyed
    /\ run.destroyed <= run.created
    /\ Releases(ev.calls) = (IF ev.op = "drop_root" THEN 1 ELSE 0)
    /\ (stack # <<>> => ledger.unreserve_limit = 0)

\* C4 witness: the Root was dropped after one frame below it was absorbed
\* and another one reverted, and the ledger saw one release.
C4_Witness ==
    /\ ev.op = "drop_root"
    /\ run.opened = 2
    /\ run.persisted = 1
    /\ ledger.unreserve_limit = 1

\* C5: a meter returned by nested has no usage and a limit that is at most
\* its parent's available budget, limit + refund - charge with the sum capped
\* at the largest Balance and the difference floored at zero.
C5_LimitContainment ==
    ev.op = "nested" =>
        LET parent == stack[Len(stack) - 1]
            child == Top(stack)
        IN  /\ child.limit <=
                 Max(0, Min(parent.limit + parent.total_usage.refund, BalanceMax)
                        - parent.total_usage.charge)
            /\ child.total_usage = [charge |-> 0, refund |-> 0]
            /\ child.own_usage = [charge |-> 0, refund |-> 0]

\* C5 witness: a child opened under a Nested parent that holds charges and
\* refunds, with less than the parent's limit.
C5_Witness ==
    /\ ev.op = "nested"
    /\ Len(stack) = 3
    /\ stack[2].total_usage.charge > 0
    /\ stack[2].total_usage.refund > 0
    /\ stack[3].limit < stack[2].limit

\* C6: charge returns StorageExhausted exactly when the merged total_usage
\* nets to a charge above the limit, and it records the delta in own_usage
\* and total_usage whether it fails or not.
C6_ChargeResult ==
    [][ev'.op = "charge" =>
          LET before == Top(stack)
              after == Top(stack')
          IN  /\ after.total_usage = CappedSum(before.total_usage, ev'.arg)
              /\ after.own_usage = CappedSum(before.own_usage, ev'.arg)
              /\ after.limit = before.limit
              /\ ev'.res \in {"Ok", "StorageExhausted"}
              /\ ev'.res = "StorageExhausted" <=>
                    after.total_usage.charge - after.total_usage.refund
                        > after.limit]_vars

\* C6 witness: a failed charge whose delta is in own_usage and total_usage.
C6_Witness ==
    /\ ev.op = "charge" /\ ev.res = "StorageExhausted"
    /\ ev.arg.charge > 0
    /\ Top(stack).own_usage = ev.arg
    /\ Top(stack).total_usage = ev.arg

\* C7: every absorb issues one Ext::charge, for the net cost of the absorbed
\* frame's own_usage, and the calls made equal the frames absorbed.
C7_SettleOwnUsage ==
    [][/\ ledger'.charge = run'.persisted
       /\ ev'.op = "absorb" =>
             /\ ev'.calls = <<[fn |-> "charge", origin |-> stack[1].origin,
                              contract |-> ev'.arg,
                              amount |-> NetCost(Top(stack).own_usage)]>>
             /\ ledger'.charge = ledger.charge + 1]_vars

\* C7 witness: a frame whose total_usage (charge 2) held a descendant's usage
\* was absorbed into the Root and settled for its own_usage (charge 1).
C7_Witness ==
    /\ ev.op = "absorb"
    /\ Len(stack) = 1
    /\ stack[1].total_usage = [charge |-> 2, refund |-> 0]
    /\ ev.calls[1].amount = [kind |-> "Charge", amount |-> 1]
    /\ ledger.charge = 2

\* C8: after absorb a meter cannot be used: no charge on it returns Ok or
\* changes its usage, and absorbing it again issues no Ext::charge and
\* changes no live frame.
C8_ConsumedByAbsorb ==
    [][/\ ev'.op = "charge_spent" => (ev'.res # "Ok" /\ spent' = spent)
       /\ ev'.op = "absorb_spent" => (ledger' = ledger /\ stack' = stack)]_vars

\* C9: a child opened after a sibling was dropped, with the parent untouched
\* in between, is the meter the parent would have returned had the sibling
\* never been opened: same limit as the sibling got, no usage.
C9_SiblingIsolation ==
    (ev.op = "nested" /\ sibling[Len(stack) - 1] # <<>>) =>
        LET was == sibling[Len(stack) - 1][1] IN
        /\ Top(stack).limit = was.limit
        /\ Top(stack).total_usage = [charge |-> 0, refund |-> 0]
        /\ Top(stack).own_usage = [charge |-> 0, refund |-> 0]
        /\ stack[Len(stack) - 1] = was.parent

\* C9 witness: the dropped sibling had recorded usage, and the child opened
\* after it has a budget to spend.
C9_Witness ==
    /\ ev.op = "nested"
    /\ sibling[Len(stack) - 1] # <<>>
    /\ sibling[Len(stack) - 1][1].used
    /\ Top(stack).limit > 0

\* C10: new returns ReservationFailed and no meter when reserve_limit fails,
\* with no release then or later; no other operation returns it; when
\* reserve_limit succeeds the Root has the origin and limit given, no usage.
C10_Create ==
    /\ ev.res = "ReservationFailed" => ev.op = "new"
    /\ run.created = 0 => (stack = <<>> /\ ledger.unreserve_limit = 0)
    /\ ev.op = "new" =>
          IF ev.calls[1].ok
          THEN /\ ev.res = "Ok"
               /\ stack = <<[origin |-> ev.arg.origin,
                             limit |-> ev.arg.limit,
                             total_usage |-> [charge |-> 0, refund |-> 0],
                             own_usage |-> [charge |-> 0, refund |-> 0]]>>
          ELSE /\ ev.res = "ReservationFailed"
               /\ stack = <<>>
               /\ run.created = 0

\* C10 witness: a create whose reservation failed.
C10_Witness ==
    /\ ev.op = "new"
    /\ ev.res = "ReservationFailed"
    /\ ~ev.calls[1].ok
    /\ ledger.reserve_limit = 1

\* C11: the Root's own_usage is zero as long as the Root lives, so the debug
\* assertions of its drop hold and the drop ends in the release.
C11_RootPurity ==
    /\ stack # <<>> => stack[1].own_usage = [charge |-> 0, refund |-> 0]
    /\ ~panicked
    /\ ev.op = "drop_root" => (ev.res = "Ok" /\ Releases(ev.calls) = 1)

\* C11 witness: the Root was dropped after it had absorbed usage.
C11_Witness ==
    /\ ev.op = "drop_root"
    /\ ev.res = "Ok"
    /\ ev.calls[1].usage.charge > 0
    /\ ev.calls[1].usage.refund > 0
    /\ run.persisted > 0

\* ------------------------------------------------------ arithmetic of Usage
\* Any Usage value, and the methods of Usage applied to it.
InitUsage ==
    /\ acc \in Usage
    /\ audit = [settled |-> [charge |-> 0, refund |-> 0]]
    /\ stack = <<>>
    /\ exhausted = <<>>
    /\ atOpen = <<>>
    /\ sibling = <<>>
    /\ spent = <<>>
    /\ ledger = [reserve_limit |-> 0, unreserve_limit |-> 0, charge |-> 0]
    /\ run = [calls |-> 0, created |-> 0, destroyed |-> 0,
              opened |-> 0, persisted |-> 0, reused |-> 0]
    /\ panicked = FALSE
    /\ ev = [op |-> "init", res |-> "Ok", arg |-> <<>>, calls |-> <<>>]

\* acc = acc.saturating_add(rhs)
UsageAdd ==
    /\ \E rhs \in Usage :
         /\ acc' = saturating_add(acc, rhs)
         /\ ev' = [op |-> "saturating_add", res |-> "Ok",
                   arg |-> [lhs |-> acc, rhs |-> rhs], calls |-> <<>>]
    /\ UNCHANGED <<stack, exhausted, atOpen, sibling, spent, ledger, run,
                   panicked, audit>>

\* acc = acc.saturating_sub(rhs)
UsageSub ==
    /\ \E rhs \in Usage :
         /\ acc' = saturating_sub(acc, rhs)
         /\ ev' = [op |-> "saturating_sub", res |-> "Ok",
                   arg |-> [lhs |-> acc, rhs |-> rhs], calls |-> <<>>]
    /\ UNCHANGED <<stack, exhausted, atOpen, sibling, spent, ledger, run,
                   panicked, audit>>

\* acc.cost()
UsageCost ==
    /\ ev' = [op |-> "cost", res |-> cost(acc), arg |-> acc, calls |-> <<>>]
    /\ UNCHANGED <<stack, exhausted, atOpen, sibling, spent, ledger, run,
                   panicked, acc, audit>>

NextUsage ==
    \/ UsageAdd
    \/ UsageSub
    \/ UsageCost

SpecUsage == InitUsage /\ [][NextUsage]_vars

\* C12: cost is Charge(charge - refund) when charge >= refund and
\* Refund(refund - charge) otherwise; equal totals give Charge(0).
C12_NetCost ==
    ev.op = "cost" =>
        /\ ev.res = NetCost(ev.arg)
        /\ ev.arg = acc
        /\ ev.arg.charge = ev.arg.refund =>
              ev.res = [kind |-> "Charge", amount |-> 0]

\* C12 witness: the cost of a Usage with equal totals above zero, as left by
\* a refund followed by an equal charge, is Charge(0).
C12_Witness ==
    /\ ev.op = "cost"
    /\ ev.arg.charge = ev.arg.refund
    /\ ev.arg.charge > 0
    /\ ev.res = [kind |-> "Charge", amount |-> 0]

\* C13: both totals of a Usage stay within 0..BalanceMax; an addition above
\* the largest Balance gives the largest Balance and a subtraction below
\* zero gives zero.
C13_Saturation ==
    /\ acc \in [charge : 0..BalanceMax, refund : 0..BalanceMax]
    /\ ev.op = "saturating_add" =>
          acc = [charge |-> Min(ev.arg.lhs.charge + ev.arg.rhs.charge, BalanceMax),
                 refund |-> Min(ev.arg.lhs.refund + ev.arg.rhs.refund, BalanceMax)]
    /\ ev.op = "saturating_sub" =>
          acc = [charge |-> Max(ev.arg.lhs.charge - ev.arg.rhs.charge, 0),
                 refund |-> Max(ev.arg.lhs.refund - ev.arg.rhs.refund, 0)]

\* C13 witness: an addition whose charge exceeds the largest Balance and a
\* result that holds the largest Balance.
C13_Witness ==
    /\ ev.op = "saturating_add"
    /\ ev.arg.lhs.charge > 0
    /\ ev.arg.lhs.charge + ev.arg.rhs.charge > BalanceMax
    /\ acc.charge = BalanceMax

\* C14: absorb changes the total_usage of no live frame, the parent included:
\* every frame that outlives the absorbed one holds the same total_usage
\* after the absorb as before it.
C14_AbsorbLeavesAncestors ==
    [][ev'.op = "absorb" =>
          \A j \in 1..Len(stack') :
              stack'[j].total_usage = stack[j].total_usage]_vars

\* C15: dropping a Nested frame unabsorbed makes no Ext call: no charge, no
\* reserve_limit, no unreserve_limit.
C15_DiscardSilent ==
    [][ev'.op = "discard" => (ev'.calls = <<>> /\ ledger' = ledger)]_vars

\* C15 witness: a frame that held usage was dropped after a descendant of it
\* had been absorbed and settled; the ledger saw that one settlement only.
C15_Witness ==
    /\ ev.op = "discard"
    /\ ev.arg
    /\ ev.calls = <<>>
    /\ run.persisted = 1
    /\ ledger = [reserve_limit |-> 1, unreserve_limit |-> 0, charge |-> 1]

\* C16: the Root is built with the origin and limit given to new, no
\* operation changes them, and its drop calls unreserve_limit with them and
\* with the Root's total_usage of that moment.
C16_ReleaseArguments ==
    [][/\ (ev'.op = "new" /\ ev'.res = "Ok") =>
             /\ stack'[1].origin = ev'.arg.origin
             /\ stack'[1].limit = ev'.arg.limit
             /\ ev'.calls = <<[fn |-> "reserve_limit", origin |-> ev'.arg.origin,
                              limit |-> ev'.arg.limit, ok |-> TRUE]>>
       /\ (stack # <<>> /\ stack' # <<>>) =>
             /\ stack'[1].origin = stack[1].origin
             /\ stack'[1].limit = stack[1].limit
       /\ ev'.op = "drop_root" =>
             ev'.calls = <<[fn |-> "unreserve_limit",
                            origin |-> stack[1].origin,
                            limit |-> stack[1].limit,
                            usage |-> stack[1].total_usage]>>]_vars

\* C16 witness: a Root of limit 2 absorbed one frame that had charged 1 and
\* was dropped: release(origin, 2, Usage{1,0}).
C16_Witness ==
    /\ ev.op = "drop_root"
    /\ run.persisted = 1
    /\ ev.calls = <<[fn |-> "unreserve_limit", origin |-> "alice", limit |-> 2,
                     usage |-> [charge |-> 1, refund |-> 0]]>>

\* C17: after an absorb the parent's total_usage is the capped component-wise
\* sum of its total_usage when the child was opened and the child's
\* total_usage at the absorb.
C17_CommitSum ==
    [][ev'.op = "absorb" =>
          LET before == Top(Top(atOpen)).total_usage
              child == Top(stack).total_usage
          IN  Top(stack').total_usage =
                  [charge |-> Min(before.charge + child.charge, BalanceMax),
                   refund |-> Min(before.refund + child.refund, BalanceMax)]]_vars

\* C17 witness: a parent that had charged 1 before it opened the child
\* absorbed a child that had charged 1.
C17_Witness ==
    /\ ev.op = "absorb"
    /\ Len(stack) = 2
    /\ stack[2].own_usage = [charge |-> 1, refund |-> 0]
    /\ stack[2].total_usage = [charge |-> 2, refund |-> 0]
    /\ ev.calls[1].amount = [kind |-> "Charge", amount |-> 1]

\* C18: the usage passed to unreserve_limit nets to a refund or to a charge
\* of at most the Root's limit, and so does the total_usage of a frame right
\* after a child was absorbed into it.
C18_WithinReservation ==
    /\ ev.op = "drop_root" =>
          ev.calls[1].usage.charge - ev.calls[1].usage.refund <= ev.calls[1].limit
    /\ ev.op = "absorb" =>
          Top(stack).total_usage.charge - Top(stack).total_usage.refund
              <= Top(stack).limit

\* C18 witness: the Root was dropped with its whole limit charged.
C18_Witness ==
    /\ ev.op = "drop_root"
    /\ ev.calls[1].limit > 0
    /\ ev.calls[1].usage.charge - ev.calls[1].usage.refund = ev.calls[1].limit
    /\ ev.calls[1].usage.refund > 0

\* C19: when the Root is dropped, the usage passed to unreserve_limit is the
\* component-wise sum of the own_usage of the frames Ext::charge was called
\* for.  Stated for the runs in which that sum fits the Balance, so that no
\* addition that contributes to either side was cut off.
C19_SettlementConservation ==
    (/\ ev.op = "drop_root"
     /\ audit.settled.charge <= BalanceMax
     /\ audit.settled.refund <= BalanceMax)
        => ev.calls[1].usage = audit.settled

====
